---- MODULE Spec2Model ----
(***************************************************************************)
(* Bubble packing and coverage statistics of boundary-coverage.            *)
(*                                                                         *)
(* Part 1 models src/bubble_generation.py and the loop inlined in          *)
(* src/generate_bubbles.py: the radius estimator, the radius descent of    *)
(* generate_inclusion_bubbles, the minimum-bounding-circle fallback, the   *)
(* exclusion ring and the truncation done by the entry points.             *)
(*                                                                         *)
(* The geometry library (shapely) is the environment: the result of each   *)
(* erosion (the parts of the island and their exterior lengths), of each   *)
(* contains() test and of minimum_bounding_circle is chosen                *)
(* nondeterministically from small sets.  Lengths are whole metres and     *)
(* the step of the perimeter walk is an exact fraction num/den.            *)
(*                                                                         *)
(* Part 2 models compute_coverage_stats of src/analysis.py as a function   *)
(* of its three arguments.  There a geometry is a finite set of cells of   *)
(* equal area, the area of a geometry is the number of its cells, and a    *)
(* percentage is the exact fraction num/den.                               *)
(*                                                                         *)
(* Part 3 models the batch of src/main.py (main and process_boundary) and  *)
(* write_summary_statistics of src/analysis.py.  There the results of      *)
(* calculate_bubbles and compute_coverage_stats for a region, and whether  *)
(* they raise, are chosen by the environment; a percentage is a whole      *)
(* number and the written mean, median and variance are exact fractions.   *)
(***************************************************************************)
EXTENDS Integers, Sequences, FiniteSets

\* src/bubble_generation.py:5 (the same value at src/generate_bubbles.py:15)
BUBBLE_LIMIT == 200

\* Bounds of the model.
MaxWidthKm == 4
MaxParts == 2
MaxPerimeterKm == 2
NumCells == 3
MaxInclusionBubbles == 2
MaxExclusionBubbles == 1
MaxRegions == 3

VARIABLES
    entry,              \* the function that was called
    width,              \* shorter edge of the region's minimum rotated rectangle (m)
    pc,                 \* position in the called function
    initial_radius,     \* argument initial_radius of generate_inclusion_bubbles
    padding,            \* argument padding of generate_inclusion_bubbles
    radius,             \* local radius of the descent
    tiers,              \* number of loop iterations executed so far
    inclusion_bubbles,  \* list of accepted bubble geometries
    inclusion_data,     \* list of [x, y, radius] records
    exclusion_bubbles,
    exclusion_data,
    padded_boundary,    \* generate_exclusion_bubbles: the parts of boundary.buffer(1000)
    returned,           \* the tuple returned by the called function
    boundary,           \* compute_coverage_stats: argument boundary
    inclusion_geoms,    \* compute_coverage_stats: argument inclusion_bubbles
    exclusion_geoms,    \* compute_coverage_stats: argument exclusion_bubbles
    coverage_stats,     \* compute_coverage_stats: the dictionary returned
    boundaries,         \* main: the filtered list of boundary names
    region,             \* main: number of boundaries process_boundary was called for
    statistics,         \* the list of coverage dictionaries to summarise
    output_rows,        \* rows written to bubbles.csv
    statistics_rows,    \* rows written to statistics.csv
    output_file,        \* "unopened", "open" or "closed"
    statistics_file,    \* "unopened", "open" or "closed"
    raised,             \* the exception that left the called function, or NoException
    arg_polygons,       \* calculate_step: argument polygons (exterior lengths)
    arg_bubble_length,  \* calculate_step: argument bubble_length
    step_returned       \* calculate_step: the step returned

bubble_vars == <<width, initial_radius, padding, radius, tiers,
                 inclusion_bubbles, inclusion_data, exclusion_bubbles,
                 exclusion_data, padded_boundary, returned>>

coverage_vars == <<boundary, inclusion_geoms, exclusion_geoms, coverage_stats>>

batch_vars == <<boundaries, region, statistics, output_rows, statistics_rows,
                output_file, statistics_file, raised>>

step_vars == <<arg_polygons, arg_bubble_length, step_returned>>

vars == <<entry, pc, bubble_vars, coverage_vars, batch_vars, step_vars>>

NoException == "none"

\* The values of the variables of a part that is not running.
BubbleIdle ==
    /\ width = 0
    /\ initial_radius = 0
    /\ padding = 0
    /\ radius = 0
    /\ tiers = 0
    /\ inclusion_bubbles = <<>>
    /\ inclusion_data = <<>>
    /\ exclusion_bubbles = <<>>
    /\ exclusion_data = <<>>
    /\ padded_boundary = <<>>
    /\ returned = <<>>

CoverageIdle ==
    /\ boundary = {}
    /\ inclusion_geoms = <<>>
    /\ exclusion_geoms = <<>>
    /\ coverage_stats = <<>>

NoStep == <<>>

StepIdle ==
    /\ arg_polygons = <<>>
    /\ arg_bubble_length = 0
    /\ step_returned = NoStep

BatchIdle ==
    /\ boundaries = <<>>
    /\ region = 0
    /\ statistics = <<>>
    /\ output_rows = <<>>
    /\ statistics_rows = <<>>
    /\ output_file = "unopened"
    /\ statistics_file = "unopened"
    /\ raised = NoException

----
\* Helpers

RECURSIVE SumSeq(_)
SumSeq(s) == IF s = <<>> THEN 0 ELSE Head(s) + SumSeq(Tail(s))

RECURSIVE Flatten(_)
Flatten(ss) == IF ss = <<>> THEN <<>> ELSE Head(ss) \o Flatten(Tail(ss))

\* ceil(a / b) for a >= 0, b > 0
CeilDiv(a, b) == (a + b - 1) \div b

----
\* The functions that can be called.

EntryPoints ==
    {"calculate_bubbles_with_exclusions",
     "calculate_bubbles_inclusions_only",
     "calculate_bubbles"}

DirectCall == "generate_inclusion_bubbles"

\* Widths of the minimum rotated rectangle of a region of positive area.
Widths ==
    {1000 * i : i \in 1..MaxWidthKm} \cup {1000 * i - 1 : i \in 1..MaxWidthKm}

\* Initial radii of a direct call of generate_inclusion_bubbles.
DirectRadii == {-1000, 0, 500, 1000, 1500, 3000, 4000}

\* Results of an erosion: the exterior lengths of the parts of the island
\* (<<>> is the empty geometry).
Perimeters == {1000 * i : i \in 1..MaxPerimeterKm}

\* An island whose exterior takes 200 steps of 2000 m: with it the count
\* reaches BUBBLE_LIMIT in a tier above 1000.
LongIslands == {<<400000>>}

Islands == UNION {[1..n -> Perimeters] : n \in 0..MaxParts} \cup LongIslands

\* Results of the contains() tests of one tier, by part and sample index.
ContainsPatterns == {"all", "none", "alternate"}

Contains(pattern, part, k) ==
    CASE pattern = "all" -> TRUE
      [] pattern = "none" -> FALSE
      [] OTHER -> k % 2 = 0

----
\* src/bubble_generation.py

\* Faulty variant: half the width, not rounded down to kilometres.
calculate_radius_upper_bound_unrounded(w) == w \div 2

\* Faulty variant: half the width rounded to the nearest kilometre, as the
\* docstring words it, instead of floored.
calculate_radius_upper_bound_nearest(w) == ((w + 1000) \div 2000) * 1000

\* Faulty variant: floors the whole width, not half of it, to kilometres.
calculate_radius_upper_bound_full_width(w) == (w \div 1000) * 1000

\* lines 8-26: int((width // 2000) * 1000)
calculate_radius_upper_bound(w) == (w \div 2000) * 1000

\* Faulty variant: the tier of radius 1000 is not treated as the last one.
calculate_step_budget_only(polygons, r, bubble_length) ==
    LET total_polygon_length == SumSeq(polygons)
        is_last_iteration == bubble_length * r + total_polygon_length > BUBBLE_LIMIT * r
    IN  IF is_last_iteration
        THEN [num |-> total_polygon_length, den |-> BUBBLE_LIMIT - bubble_length]
        ELSE [num |-> r, den |-> 1]

\* lines 29-51 (the same function at src/generate_bubbles.py:111-131):
\* step as the fraction num/den
calculate_step(polygons, r, bubble_length) ==
    LET total_polygon_length == SumSeq(polygons)
        \* bubble_length + total_polygon_length / r > BUBBLE_LIMIT, with r > 0
        is_last_iteration ==
            r = 1000 \/ bubble_length * r + total_polygon_length > BUBBLE_LIMIT * r
    IN  IF is_last_iteration
        THEN [num |-> total_polygon_length, den |-> BUBBLE_LIMIT - bubble_length]
        ELSE [num |-> r, den |-> 1]

\* len(np.arange(0, stop, step)) = ceil(stop / step), with the quotient taken
\* exactly (numpy takes it in floating point)
ArangeCount(stop, step) ==
    IF stop <= 0 THEN 0 ELSE CeilDiv(stop * step.den, step.num)

\* point.buffer(radius) at line 86: the circle of radius r centred at sample k
\* of part i.  A geometry is described by its centre, the width of its bounds
\* (maxx - minx, twice the radius) and whether padded_boundary contains it.
Bubble(i, k, r, inside) ==
    [kind |-> "buffer", x |-> i, y |-> k, diameter |-> 2 * r, contained |-> inside]

\* Faulty variant: every candidate is appended, contained or not.
AcceptsAny(bubble) == TRUE

\* the condition of the if at line 87
Accepts(bubble) == bubble.contained

\* Faulty variant: the record holds the coordinates in the other order.
InclusionRecordSwapped(bubble, r) == <<bubble.y, bubble.x, r \div 1000>>

\* the record appended at line 89
InclusionRecord(bubble, r) == <<bubble.x, bubble.y, r \div 1000>>

\* Faulty variant: the parts are walked from the last to the first.
TierBubblesPartsReversed(polygons, step, r, pattern) ==
    Flatten([i \in 1..Len(polygons) |->
        SelectSeq(
            [j \in 1..ArangeCount(polygons[Len(polygons) + 1 - i], step) |->
                Bubble(Len(polygons) + 1 - i, j - 1, r,
                       Contains(pattern, Len(polygons) + 1 - i, j - 1))],
            Accepts)])

\* the bubbles the two for loops of one tier append, in order
TierBubbles(polygons, step, r, pattern) ==
    Flatten([i \in 1..Len(polygons) |->
        SelectSeq(
            [j \in 1..ArangeCount(polygons[i], step) |->
                Bubble(i, j - 1, r, Contains(pattern, i, j - 1))],
            Accepts)])

\* Faulty variant: the step-down divides by 2500, so it goes from 2000 to 0.
NextRadiusBy2500(r, placed) ==
    IF placed > 0 THEN (r \div 2500) * 1000 ELSE r - 1000

\* Faulty variant: the radius always goes down by 1000.
NextRadiusAlwaysLinear(r, placed) == r - 1000

\* Faulty variant: the step-down multiplies by 1500 instead of 1000.
NextRadiusBy1500(r, placed) ==
    IF placed > 0 THEN (r \div 1500) * 1500 ELSE r - 1000

\* lines 91-94
NextRadius(r, placed) ==
    IF placed > 0 THEN (r \div 1500) * 1000 ELSE r - 1000

\* Faulty variant: the loop is entered with BUBBLE_LIMIT bubbles placed.
LoopConditionUpToLimit == radius > 0 /\ Len(inclusion_bubbles) <= BUBBLE_LIMIT

\* Faulty variant: the loop is entered with a radius of 0.
LoopConditionFromZero == radius >= 0 /\ Len(inclusion_bubbles) < BUBBLE_LIMIT

\* the condition of the while at line 71
LoopCondition == radius > 0 /\ Len(inclusion_bubbles) < BUBBLE_LIMIT

PaddingOf(e) == IF e = "calculate_bubbles_inclusions_only" THEN 0 ELSE 500

\* src/bubble_generation.py:126-144
\* Diameters (maxx - minx) of the minimum bounding circle of a region whose
\* minimum rotated rectangle has the given width.
MbcDiameters(w) == {w + 1, 2 * w + 1000}

create_minimum_bounding_circle(diameter, inside) ==
    LET circle == [kind |-> "minimum_bounding_circle", x |-> 0, y |-> 0,
                   diameter |-> diameter, contained |-> inside]
        \* minx, miny, maxx, maxy = circle.bounds; radius = (maxx - minx) / 2
        \* the record is [centroid.x, centroid.y, int(radius)]
    IN  <<circle, <<circle.x, circle.y, diameter \div 2>>>>

\* Faulty variant: the fallback is never taken.
NeedsFallbackNever(bubbles) == FALSE

\* the condition of the if at line 202
NeedsFallback(bubbles) == Len(bubbles) = 0

\* src/bubble_generation.py:147-180
\* Exterior lengths of the parts of boundary.buffer(1000): a small region
\* (a multiple of the step of 250 m), a large region (not a multiple; more
\* than BUBBLE_LIMIT steps long) and a region of two parts far apart.  The
\* parts of the buffer of a polygon are polygons, so the LineString test at
\* line 166 never holds.
ExclusionRings == {<<6500>>, <<50100>>, <<6600, 6500>>}

\* point.buffer(exclusion_radius) at line 176: the circle centred at the
\* point at the given distance along the exterior of part i
ExclusionBubble(i, distance) ==
    [kind |-> "buffer", x |-> i, y |-> distance, diameter |-> 2 * 1000]

\* Faulty variant: the exclusion list is cut at BUBBLE_LIMIT.
generate_exclusion_bubbles_capped(polygons) ==
    LET exclusion_radius == 1000
        step == [num |-> exclusion_radius, den |-> 4]
        walk(f(_, _)) == Flatten([i \in 1..Len(polygons) |->
            [j \in 1..ArangeCount(polygons[i], step) |->
                f(i, ((j - 1) * step.num) \div step.den)]])
        data(i, distance) ==
            <<ExclusionBubble(i, distance).x, ExclusionBubble(i, distance).y,
              exclusion_radius \div 1000>>
        cut(list) == SubSeq(list, 1, IF Len(list) < BUBBLE_LIMIT THEN Len(list)
                                     ELSE BUBBLE_LIMIT)
    IN  <<cut(walk(ExclusionBubble)), cut(walk(data))>>

generate_exclusion_bubbles(polygons) ==
    LET exclusion_radius == 1000
        \* step = exclusion_radius / 4
        step == [num |-> exclusion_radius, den |-> 4]
        \* for distance in np.arange(0, polygon.exterior.length, step): the
        \* j-th distance is (j - 1) * 1000 / 4, a whole number
        walk(f(_, _)) == Flatten([i \in 1..Len(polygons) |->
            [j \in 1..ArangeCount(polygons[i], step) |->
                f(i, ((j - 1) * step.num) \div step.den)]])
        data(i, distance) ==
            <<ExclusionBubble(i, distance).x, ExclusionBubble(i, distance).y,
              exclusion_radius \div 1000>>
    IN  <<walk(ExclusionBubble), walk(data)>>

\* Faulty variant: the last BUBBLE_LIMIT entries are kept, not the first.
TruncateKeepsLast(list) ==
    IF Len(list) <= BUBBLE_LIMIT THEN list
    ELSE SubSeq(list, Len(list) - BUBBLE_LIMIT + 1, Len(list))

\* Faulty variant: the list is returned whole.
TruncateNothing(list) == list

\* list[:BUBBLE_LIMIT]
Truncate(list) ==
    IF Len(list) <= BUBBLE_LIMIT THEN list ELSE SubSeq(list, 1, BUBBLE_LIMIT)

NoReturn == <<>>

NoStats == <<>>

----
\* Initial states: a call of one of the entry points on a region, or a call
\* of generate_inclusion_bubbles with an initial radius and a padding.

InitEntryPoint ==
    /\ entry \in EntryPoints
    /\ width \in Widths
    /\ pc = "call"
    /\ initial_radius = 0
    /\ padding = 0
    /\ radius = 0

InitDirectCall ==
    /\ entry = DirectCall
    /\ width = 0
    /\ pc = "loop"
    /\ initial_radius \in DirectRadii
    /\ padding \in {0, 500}
    /\ radius = initial_radius

Init ==
    /\ (InitEntryPoint \/ InitDirectCall)
    /\ tiers = 0
    /\ inclusion_bubbles = <<>>
    /\ inclusion_data = <<>>
    /\ exclusion_bubbles = <<>>
    /\ exclusion_data = <<>>
    /\ padded_boundary = <<>>
    /\ returned = NoReturn
    /\ boundary = {}
    /\ inclusion_geoms = <<>>
    /\ exclusion_geoms = <<>>
    /\ coverage_stats = NoStats
    /\ BatchIdle
    /\ StepIdle

\* lines 111, 194 (and src/generate_bubbles.py:144-150): the estimate is the
\* initial radius of the descent
CallGenerateInclusionBubbles ==
    /\ pc = "call"
    /\ initial_radius' = calculate_radius_upper_bound(width)
    /\ radius' = initial_radius'
    /\ padding' = PaddingOf(entry)
    /\ pc' = "loop"
    /\ UNCHANGED <<step_vars, batch_vars, coverage_vars, padded_boundary, entry, width, tiers,
                   inclusion_bubbles, inclusion_data, exclusion_bubbles,
                   exclusion_data, returned>>

\* lines 71-94: one iteration of the while loop
Tier ==
    /\ pc = "loop"
    /\ LoopCondition
    /\ \E island_of_possibility \in Islands, pattern \in ContainsPatterns :
        LET polygons == island_of_possibility
            placed ==
                IF polygons = <<>> THEN <<>>
                ELSE TierBubbles(polygons,
                         calculate_step(polygons, radius, Len(inclusion_bubbles)),
                         radius, pattern)
        IN  /\ inclusion_bubbles' = inclusion_bubbles \o placed
            \* each append at line 88 is paired with the append at line 89
            /\ inclusion_data' = inclusion_data \o
                   [n \in 1..(Len(inclusion_bubbles') - Len(inclusion_bubbles)) |->
                       InclusionRecord(inclusion_bubbles'[Len(inclusion_bubbles) + n],
                                       radius)]
            /\ radius' = NextRadius(radius, Len(inclusion_bubbles'))
    /\ tiers' = tiers + 1
    /\ UNCHANGED <<step_vars, batch_vars, coverage_vars, padded_boundary, entry, width, pc,
                   initial_radius, padding, exclusion_bubbles, exclusion_data,
                   returned>>

\* line 96: the loop ends and generate_inclusion_bubbles returns
ReturnInclusionBubbles ==
    /\ pc = "loop"
    /\ ~LoopCondition
    /\ IF entry = DirectCall
       THEN /\ pc' = "done"
            /\ returned' = <<inclusion_bubbles, inclusion_data>>
       ELSE /\ pc' = "generated"
            /\ UNCHANGED returned
    /\ UNCHANGED <<step_vars, batch_vars, coverage_vars, padded_boundary, entry, width,
                   initial_radius, padding, radius, tiers, inclusion_bubbles,
                   inclusion_data, exclusion_bubbles, exclusion_data>>

\* lines 201-205: only calculate_bubbles_with_exclusions has the fallback
Fallback ==
    /\ pc = "generated"
    /\ entry = "calculate_bubbles_with_exclusions"
    /\ IF NeedsFallback(inclusion_bubbles)
       THEN \E d \in MbcDiameters(width), inside \in BOOLEAN :
                LET mbc == create_minimum_bounding_circle(d, inside)
                IN  /\ inclusion_bubbles' = <<mbc[1]>>
                    /\ inclusion_data' = <<mbc[2]>>
       ELSE UNCHANGED <<inclusion_bubbles, inclusion_data>>
    /\ pc' = "exclusions"
    /\ UNCHANGED <<step_vars, batch_vars, coverage_vars, padded_boundary, entry, width,
                   initial_radius, padding, radius, tiers, exclusion_bubbles,
                   exclusion_data, returned>>

\* line 208 (src/generate_bubbles.py:173-197)
GenerateExclusionBubbles ==
    /\ IF entry = "calculate_bubbles" THEN pc = "generated" ELSE pc = "exclusions"
    /\ \E buffered \in ExclusionRings :
        LET res == generate_exclusion_bubbles(buffered)
        IN  /\ padded_boundary' = buffered
            /\ exclusion_bubbles' = res[1]
            /\ exclusion_data' = res[2]
    /\ pc' = "return"
    /\ UNCHANGED <<step_vars, batch_vars, coverage_vars, entry, width, initial_radius, padding,
                   radius, tiers, inclusion_bubbles, inclusion_data, returned>>

\* lines 118-123, 210-215 (src/generate_bubbles.py:199-204)
Return ==
    /\ IF entry = "calculate_bubbles_inclusions_only"
       THEN pc = "generated" ELSE pc = "return"
    /\ returned' = <<Truncate(inclusion_bubbles), Truncate(inclusion_data),
                     exclusion_bubbles, exclusion_data>>
    /\ pc' = "done"
    /\ UNCHANGED <<step_vars, batch_vars, coverage_vars, padded_boundary, entry, width,
                   initial_radius, padding, radius, tiers, inclusion_bubbles,
                   inclusion_data, exclusion_bubbles, exclusion_data>>

Next ==
    \/ CallGenerateInclusionBubbles
    \/ Tier
    \/ ReturnInclusionBubbles
    \/ Fallback
    \/ GenerateExclusionBubbles
    \/ Return

Spec == Init /\ [][Next]_vars

----
\* A call of calculate_step on its own.

\* Radii and bubble counts calculate_step is called with: the radius is
\* positive and the count below BUBBLE_LIMIT (the while condition of line 71)
StepRadii == {500, 1000, 1500, 2000, 3000}

StepBubbleLengths == {0, 1, 100, 198, 199}

InitStep ==
    /\ entry = "calculate_step"
    /\ pc = "call"
    /\ arg_polygons \in Islands \ {<<>>}
    /\ radius \in StepRadii
    /\ arg_bubble_length \in StepBubbleLengths
    /\ step_returned = NoStep
    /\ width = 0
    /\ initial_radius = 0
    /\ padding = 0
    /\ tiers = 0
    /\ inclusion_bubbles = <<>>
    /\ inclusion_data = <<>>
    /\ exclusion_bubbles = <<>>
    /\ exclusion_data = <<>>
    /\ padded_boundary = <<>>
    /\ returned = NoReturn
    /\ CoverageIdle
    /\ BatchIdle

\* lines 29-51
CalculateStep ==
    /\ pc = "call"
    /\ entry = "calculate_step"
    /\ step_returned' = calculate_step(arg_polygons, radius, arg_bubble_length)
    /\ pc' = "done"
    /\ UNCHANGED <<entry, bubble_vars, coverage_vars, batch_vars, arg_polygons,
                   arg_bubble_length>>

NextStep == CalculateStep

SpecStep == InitStep /\ [][NextStep]_vars

----
\* src/analysis.py: compute_coverage_stats

Cells == 1..NumCells

\* Regions of positive area.
Regions == (SUBSET Cells) \ {{}}

\* Bubbles: one cell, or two neighbouring cells.
Circles == {{a} : a \in Cells} \cup {{a, a + 1} : a \in 1..(NumCells - 1)}

Area(geom) == Cardinality(geom)

union_all(geoms) == UNION {geoms[i] : i \in 1..Len(geoms)}

\* Point(0, 0).buffer(0)
EmptyPolygon == {}

\* Faulty variant: the geometry standing for an empty list is not empty.
BubbleUnionUnitDefault(bubbles) ==
    IF Len(bubbles) > 0 THEN union_all(bubbles) ELSE {1}

\* lines 51-52: union_all(bubbles) if bubbles else Point(0, 0).buffer(0)
BubbleUnion(bubbles) ==
    IF Len(bubbles) > 0 THEN union_all(bubbles) ELSE EmptyPolygon

\* Faulty variant: the union is not clipped to the boundary.
internal_inclusion_area_unclipped(b, incl) == Area(BubbleUnion(incl))

\* Faulty variant: the areas of the bubbles are summed.
internal_inclusion_area_summed(b, incl) ==
    SumSeq([i \in 1..Len(incl) |-> Area(incl[i] \cap b)])

\* line 55: inclusion_union.intersection(boundary).area
internal_inclusion_area(b, incl) == Area(BubbleUnion(incl) \cap b)

\* Faulty variant: the exclusion union is not subtracted.
external_inclusion_area_with_exclusion(b, incl, excl) ==
    Area(BubbleUnion(incl) \ b)

\* line 58: inclusion_union.difference(boundary).difference(exclusion_union).area
external_inclusion_area(b, incl, excl) ==
    Area((BubbleUnion(incl) \ b) \ BubbleUnion(excl))

\* Faulty variant: the exclusion area outside the region.
exclusion_area_outside(b, excl) == Area(BubbleUnion(excl) \ b)

\* line 61: exclusion_union.intersection(boundary).area
exclusion_area(b, excl) == Area(BubbleUnion(excl) \cap b)

\* line 69: inclusion_union.intersection(boundary).difference(exclusion_union).area
net_area_within_boundary(b, incl, excl) ==
    Area((BubbleUnion(incl) \cap b) \ BubbleUnion(excl))

\* 100 * area / boundary.area as the fraction num/den
Percentage(area, boundary_area) == [num |-> 100 * area, den |-> boundary_area]

compute_coverage_stats(b, incl, excl) ==
    [internal_inclusion |-> Percentage(internal_inclusion_area(b, incl), Area(b)),
     external_inclusion |-> Percentage(external_inclusion_area(b, incl, excl), Area(b)),
     exclusion |-> Percentage(exclusion_area(b, excl), Area(b)),
     net |-> Percentage(net_area_within_boundary(b, incl, excl), Area(b))]

\* Initial states: a region and two empty bubble lists, which the caller
\* fills before it calls compute_coverage_stats.
InitCoverage ==
    /\ entry = "compute_coverage_stats"
    /\ pc = "arguments"
    /\ boundary \in Regions
    /\ inclusion_geoms = <<>>
    /\ exclusion_geoms = <<>>
    /\ coverage_stats = NoStats
    /\ width = 0
    /\ initial_radius = 0
    /\ padding = 0
    /\ radius = 0
    /\ tiers = 0
    /\ inclusion_bubbles = <<>>
    /\ inclusion_data = <<>>
    /\ exclusion_bubbles = <<>>
    /\ exclusion_data = <<>>
    /\ padded_boundary = <<>>
    /\ returned = NoReturn
    /\ BatchIdle
    /\ StepIdle

AddInclusionBubble ==
    /\ pc = "arguments"
    /\ Len(inclusion_geoms) < MaxInclusionBubbles
    /\ \E bubble \in Circles : inclusion_geoms' = Append(inclusion_geoms, bubble)
    /\ UNCHANGED <<step_vars, batch_vars, entry, pc, bubble_vars, boundary, exclusion_geoms, coverage_stats>>

AddExclusionBubble ==
    /\ pc = "arguments"
    /\ Len(exclusion_geoms) < MaxExclusionBubbles
    /\ \E bubble \in Circles : exclusion_geoms' = Append(exclusion_geoms, bubble)
    /\ UNCHANGED <<step_vars, batch_vars, entry, pc, bubble_vars, boundary, inclusion_geoms, coverage_stats>>

\* lines 39-79
ComputeCoverageStats ==
    /\ pc = "arguments"
    /\ coverage_stats' =
           compute_coverage_stats(boundary, inclusion_geoms, exclusion_geoms)
    /\ pc' = "done"
    /\ UNCHANGED <<step_vars, batch_vars, entry, bubble_vars, boundary, inclusion_geoms, exclusion_geoms>>

NextCoverage ==
    \/ AddInclusionBubble
    \/ AddExclusionBubble
    \/ ComputeCoverageStats

SpecCoverage == InitCoverage /\ [][NextCoverage]_vars

----
\* src/analysis.py: write_summary_statistics

\* The coverage dictionaries compute_coverage_stats returns, with the
\* percentages as whole numbers.
StatChoices ==
    {[internal_inclusion |-> 10, external_inclusion |-> 0, exclusion |-> 0, net |-> 10],
     [internal_inclusion |-> 20, external_inclusion |-> 5, exclusion |-> 10, net |-> 15],
     [internal_inclusion |-> 30, external_inclusion |-> 40, exclusion |-> 30, net |-> 20],
     [internal_inclusion |-> 100, external_inclusion |-> 250, exclusion |-> 100, net |-> 0]}

\* line 90
StatTypes == <<"internal_inclusion", "external_inclusion", "exclusion", "net">>

ZeroDivisionError == "ZeroDivisionError"

\* a / b of Python as the exact fraction, or the exception it raises
TrueDiv(a, b) ==
    IF b = 0 THEN [raises |-> ZeroDivisionError] ELSE [num |-> a, den |-> b]

Raises(result) == "raises" \in DOMAIN result

\* min(values), max(values) for a non-empty list
Min(values) ==
    CHOOSE v \in {values[i] : i \in 1..Len(values)} :
        \A i \in 1..Len(values) : v <= values[i]

Max(values) ==
    CHOOSE v \in {values[i] : i \in 1..Len(values)} :
        \A i \in 1..Len(values) : v >= values[i]

Insert(x, sorted) ==
    LET k == Cardinality({i \in 1..Len(sorted) : sorted[i] <= x})
    IN  SubSeq(sorted, 1, k) \o <<x>> \o SubSeq(sorted, k + 1, Len(sorted))

RECURSIVE Sort(_)
Sort(values) ==
    IF values = <<>> THEN <<>> ELSE Insert(Head(values), Sort(Tail(values)))

\* Faulty variant: the middle of the list as given, not of the sorted list.
np_median_unsorted(values) ==
    LET n == Len(values)
    IN  IF n % 2 = 1
        THEN [num |-> values[(n + 1) \div 2], den |-> 1]
        ELSE [num |-> values[n \div 2] + values[n \div 2 + 1], den |-> 2]

\* np.median(values) for a non-empty list: the middle of the sorted values,
\* or the mean of the two middle ones
np_median(values) ==
    LET n == Len(values)
        sorted == Sort(values)
    IN  IF n % 2 = 1
        THEN [num |-> sorted[(n + 1) \div 2], den |-> 1]
        ELSE [num |-> sorted[n \div 2] + sorted[n \div 2 + 1], den |-> 2]

\* Faulty variant: the sample standard deviation (ddof = 1).
np_std_sample(values) ==
    LET n == Len(values)
        total == SumSeq(values)
    IN  [sqrt_of |->
            [num |-> SumSeq([i \in 1..n |-> (n * values[i] - total) * (n * values[i] - total)]),
             den |-> n * n * (n - 1)]]

\* np.std(values) for a non-empty list: sqrt(mean(abs(x - x.mean()) ** 2)),
\* kept as the fraction whose square root it is:
\* sum((n * x - sum(values)) ** 2) / n ** 3
np_std(values) ==
    LET n == Len(values)
        total == SumSeq(values)
    IN  [sqrt_of |->
            [num |-> SumSeq([i \in 1..n |-> (n * values[i] - total) * (n * values[i] - total)]),
             den |-> n * n * n]]

\* line 91
ValuesOf(stats, stat_type) == [i \in 1..Len(stats) |-> stats[i][stat_type]]

\* lines 92-96: the five rows of one stat type; a label f'{stat_type}_mean'
\* is the pair <<stat_type, "mean">>
SummaryRows(stat_type, values) ==
    << << <<stat_type, "mean">>, TrueDiv(SumSeq(values), Len(values)) >>,
       << <<stat_type, "median">>, np_median(values) >>,
       << <<stat_type, "min">>, Min(values) >>,
       << <<stat_type, "max">>, Max(values) >>,
       << <<stat_type, "sigma">>, np_std(values) >> >>

BlankRow == <<"", "", "", "", "">>

\* lines 81-96: the rows written and the exception raised, if any.  The
\* first division evaluated is that of the first stat type; when it raises,
\* only the blank row of line 89 has been written.
write_summary_statistics(stats) ==
    LET first == ValuesOf(stats, StatTypes[1])
        mean == TrueDiv(SumSeq(first), Len(first))
    IN
    IF Raises(mean)
    THEN [rows |-> <<BlankRow>>, raised |-> mean.raises]
    ELSE [rows |-> <<BlankRow>> \o
                   Flatten([t \in 1..Len(StatTypes) |->
                               SummaryRows(StatTypes[t], ValuesOf(stats, StatTypes[t]))]),
          raised |-> NoException]

----
\* src/main.py: main and process_boundary

\* The results of calculate_bubbles the rows of bubbles.csv depend on: the
\* number of records of inclusion_data and of exclusion_data.
BubbleCounts == {<<0, 1>>, <<1, 2>>}

\* Exceptions a geometry operation raises
GeometryError == "GEOSException"

\* src/boundaries.py:176, 179
OutputHeader == <<"bubble", "name", "type">>

StatisticsHeader ==
    <<"name", "internal_inclusion_coverage", "external_inclusion_coverage",
      "exclusion_coverage", "net_coverage">>

\* lines 36-47: the rows process_boundary writes to bubbles.csv
BubbleRows(boundary_name, counts) ==
    [i \in 1..counts[1] |-> <<i, boundary_name, "inclusion">>] \o
    [i \in 1..counts[2] |-> <<i, boundary_name, "exclusion">>]

\* lines 53-59
StatisticsRow(boundary_name, stats) ==
    <<boundary_name, stats["internal_inclusion"], stats["external_inclusion"],
      stats["exclusion"], stats["net"]>>

\* Lists of distinct boundary names, as filter_boundaries returns them.
BoundaryLists ==
    {b \in UNION {[1..n -> 1..MaxRegions] : n \in 0..MaxRegions} :
        \A i, j \in 1..Len(b) : i # j => b[i] # b[j]}

InitMain ==
    /\ entry = "main"
    /\ pc = "filtered"
    /\ boundaries \in BoundaryLists
    /\ region = 0
    /\ statistics = <<>>
    /\ output_rows = <<>>
    /\ statistics_rows = <<>>
    /\ output_file = "unopened"
    /\ statistics_file = "unopened"
    /\ raised = NoException
    /\ BubbleIdle
    /\ CoverageIdle
    /\ StepIdle

\* a call of write_summary_statistics on a list of coverage dictionaries
InitSummary ==
    /\ entry = "write_summary_statistics"
    /\ pc = "summary"
    /\ boundaries = <<>>
    /\ region = 0
    /\ statistics \in UNION {[1..n -> StatChoices] : n \in 0..MaxRegions}
    /\ output_rows = <<>>
    /\ statistics_rows = <<>>
    /\ output_file = "unopened"
    /\ statistics_file = "open"
    /\ raised = NoException
    /\ BubbleIdle
    /\ CoverageIdle
    /\ StepIdle

\* lines 84-85
ReturnNoBoundaries ==
    /\ pc = "filtered"
    /\ boundaries = <<>>
    /\ pc' = "exit"
    /\ UNCHANGED <<step_vars, entry, bubble_vars, coverage_vars, batch_vars>>

\* line 90 and src/boundaries.py:162-181
SetupOutputFiles ==
    /\ pc = "filtered"
    /\ boundaries # <<>>
    /\ output_file' = "open"
    /\ statistics_file' = "open"
    /\ output_rows' = <<OutputHeader>>
    /\ statistics_rows' = <<StatisticsHeader>>
    /\ pc' = "comprehension"
    /\ UNCHANGED <<step_vars, entry, bubble_vars, coverage_vars, boundaries, region, statistics, raised>>

\* lines 94-95 and 24-47: process_boundary is called for the next boundary;
\* calculate_bubbles raises, or returns and the bubble rows are written
CalculateBubbles ==
    /\ pc = "comprehension"
    /\ region < Len(boundaries)
    /\ region' = region + 1
    /\ \/ /\ raised' = GeometryError
          /\ pc' = "finally"
          /\ UNCHANGED output_rows
       \/ \E counts \in BubbleCounts :
          /\ output_rows' = output_rows \o BubbleRows(boundaries[region'], counts)
          /\ pc' = "coverage"
          /\ UNCHANGED raised
    /\ UNCHANGED <<step_vars, entry, bubble_vars, coverage_vars, boundaries, statistics,
                   statistics_rows, output_file, statistics_file>>

\* lines 50-70 and 93-96: compute_coverage_stats raises, or returns and the
\* statistics row is written and the dictionary joins the list
ComputeAndWriteStatistics ==
    /\ pc = "coverage"
    /\ \/ /\ raised' = GeometryError
          /\ pc' = "finally"
          /\ UNCHANGED <<statistics, statistics_rows>>
       \/ \E stats \in StatChoices :
          /\ statistics_rows' =
                 Append(statistics_rows, StatisticsRow(boundaries[region], stats))
          /\ statistics' = Append(statistics, stats)
          /\ pc' = IF region < Len(boundaries) THEN "comprehension" ELSE "summary"
          /\ UNCHANGED raised
    /\ UNCHANGED <<step_vars, entry, bubble_vars, coverage_vars, boundaries, region, output_rows,
                   output_file, statistics_file>>

\* Faulty variant: the summary may also be written before the last region
\* has been processed.
WriteSummaryStatisticsEarly ==
    /\ pc = "summary" \/ (pc = "comprehension" /\ region >= 1)
    /\ LET res == write_summary_statistics(statistics)
       IN  /\ statistics_rows' = statistics_rows \o res.rows
           /\ raised' = res.raised
    /\ pc' = IF entry = "main" THEN "finally" ELSE "exit"
    /\ UNCHANGED <<step_vars, entry, bubble_vars, coverage_vars, boundaries, region,
                   statistics, output_rows, output_file, statistics_file>>

\* line 97 and src/analysis.py:81-96
WriteSummaryStatistics ==
    /\ pc = "summary"
    /\ LET res == write_summary_statistics(statistics)
       IN  /\ statistics_rows' = statistics_rows \o res.rows
           /\ raised' = res.raised
    /\ pc' = IF entry = "main" THEN "finally" ELSE "exit"
    /\ UNCHANGED <<step_vars, entry, bubble_vars, coverage_vars, boundaries, region, statistics,
                   output_rows, output_file, statistics_file>>

\* Faulty variant: the statistics file is closed only when the try block
\* raised nothing, as if line 100 followed the try statement.
FinallyClosesBubblesOnly ==
    /\ pc = "finally"
    /\ output_file' = "closed"
    /\ statistics_file' = IF raised = NoException THEN "closed" ELSE statistics_file
    /\ pc' = "exit"
    /\ UNCHANGED <<step_vars, entry, bubble_vars, coverage_vars, boundaries, region, statistics,
                   output_rows, statistics_rows, raised>>

\* lines 98-100; an exception raised in the try block leaves main afterwards
Finally ==
    /\ pc = "finally"
    /\ output_file' = "closed"
    /\ statistics_file' = "closed"
    /\ pc' = "exit"
    /\ UNCHANGED <<step_vars, entry, bubble_vars, coverage_vars, boundaries, region, statistics,
                   output_rows, statistics_rows, raised>>

NextMain ==
    \/ ReturnNoBoundaries
    \/ SetupOutputFiles
    \/ CalculateBubbles
    \/ ComputeAndWriteStatistics
    \/ WriteSummaryStatistics
    \/ Finally

SpecMain == InitMain /\ [][NextMain]_vars

NextSummary == WriteSummaryStatistics

SpecSummary == InitSummary /\ [][NextSummary]_vars
----
\* Properties of the bubble computation (checked under Spec).

Done == pc = "done"

IsMbc(bubble) == bubble.kind = "minimum_bounding_circle"

\* C1: the inclusion bubble list and the inclusion data list returned by an
\* entry point each hold at most BUBBLE_LIMIT entries.
C1_ReturnedWithinLimit ==
    (Done /\ entry \in EntryPoints) =>
        /\ Len(returned[1]) <= BUBBLE_LIMIT
        /\ Len(returned[2]) <= BUBBLE_LIMIT

\* An entry point returned after the descent had accepted more than
\* BUBBLE_LIMIT candidates, and the truncation cut the lists.
C1_Witness ==
    /\ Done /\ entry \in EntryPoints
    /\ Len(inclusion_bubbles) > BUBBLE_LIMIT
    /\ Len(inclusion_data) > BUBBLE_LIMIT
    /\ Len(returned[1]) = BUBBLE_LIMIT

\* C2 as stated: every entry point returns at least one inclusion bubble.
C2_EveryEntryPointReturnsOne ==
    (Done /\ entry \in EntryPoints) => Len(returned[1]) >= 1

\* C2 amended: calculate_bubbles_with_exclusions returns at least one
\* inclusion bubble, and when the descent placed none it returns exactly one,
\* the minimum bounding circle; the other two entry points have no fallback
\* and return the list of the descent, which may be empty.
C2_FallbackOnlyWithExclusions ==
    Done =>
        /\ entry = "calculate_bubbles_with_exclusions" =>
            /\ Len(returned[1]) >= 1
            /\ Len(returned[2]) >= 1
            /\ (\E i \in 1..Len(returned[1]) : IsMbc(returned[1][i])) =>
                    Len(returned[1]) = 1 /\ Len(returned[2]) = 1
            /\ (\A i \in 1..Len(returned[1]) : ~IsMbc(returned[1][i])) =>
                    returned[1] = Truncate(inclusion_bubbles)
        /\ entry \in EntryPoints \ {"calculate_bubbles_with_exclusions"} =>
            /\ \A i \in 1..Len(returned[1]) : ~IsMbc(returned[1][i])
            /\ returned[1] = Truncate(inclusion_bubbles)

\* calculate_bubbles_with_exclusions returned the single fallback circle
\* after the descent had tried at least one radius without placing a bubble.
C2_Witness ==
    /\ Done /\ entry = "calculate_bubbles_with_exclusions"
    /\ tiers > 0
    /\ Len(returned[1]) = 1
    /\ IsMbc(returned[1][1])

\* C3: every bubble accepted by generate_inclusion_bubbles is contained in
\* the padded boundary, at every tier and for every part.
C3_AcceptedAreContained ==
    \A i \in 1..Len(inclusion_bubbles) :
        inclusion_bubbles[i].kind = "buffer" => inclusion_bubbles[i].contained

\* The descent accepted the candidates at samples 0 and 2 of the second part
\* of an island and rejected the one at sample 1.
C3_Witness ==
    /\ \E i \in 1..Len(inclusion_bubbles) :
          inclusion_bubbles[i].x = 2 /\ inclusion_bubbles[i].y = 2
    /\ ~\E i \in 1..Len(inclusion_bubbles) :
          inclusion_bubbles[i].x = 2 /\ inclusion_bubbles[i].y = 1

\* C4 as stated: every inclusion record returned by an entry point carries a
\* radius that is a positive whole number of kilometres, the floor of the
\* radius of its circle in metres (half the width of its bounds) over 1000.
C4_RadiusIsFloorKm ==
    (Done /\ entry \in EntryPoints) =>
        \A i \in 1..Len(returned[2]) :
            /\ returned[2][i][3] >= 1
            /\ returned[2][i][3] = returned[1][i].diameter \div 2000

\* C9 as stated: for every initial radius each iteration lowers the radius
\* by at least 1000 and the number of iterations never exceeds
\* initial_radius / 1000.
C9_DecreasesBy1000 ==
    [][tiers' = tiers + 1 =>
          /\ radius' <= radius - 1000
          /\ tiers' * 1000 <= initial_radius]_vars

\* C9 amended: the same for every initial radius that is a non-negative
\* multiple of 1000, as calculate_radius_upper_bound returns.
C9_DecreasesBy1000FromMultiple ==
    [][(tiers' = tiers + 1 /\ initial_radius % 1000 = 0) =>
          /\ radius' <= radius - 1000
          /\ radius' < radius
          /\ tiers' * 1000 <= initial_radius]_vars

\* A descent from 3000 ended after exactly three iterations, with bubbles
\* placed on the way.
C9_Witness ==
    /\ initial_radius = 3000
    /\ tiers = 3
    /\ radius <= 0
    /\ Len(inclusion_bubbles) > 0

\* C10 as stated: below a width of 4000 the estimate is not positive and
\* calculate_bubbles_with_exclusions returns the single fallback circle.
C10_Below4000 ==
    (entry = "calculate_bubbles_with_exclusions" /\ pc # "call" /\ width < 4000) =>
        /\ initial_radius <= 0
        /\ Len(inclusion_bubbles) = 0 \/ pc \in {"exclusions", "return", "done"}
        /\ Done => /\ Len(returned[1]) = 1
                   /\ IsMbc(returned[1][1])

\* C10 amended: below a width of 2000 the estimate is 0, the descent runs no
\* iteration and places no bubble, and calculate_bubbles_with_exclusions
\* returns exactly one inclusion bubble, the minimum bounding circle.
C10_Below2000 ==
    (entry = "calculate_bubbles_with_exclusions" /\ pc # "call" /\ width < 2000) =>
        /\ initial_radius = 0
        /\ tiers = 0
        /\ pc \in {"loop", "generated"} => Len(inclusion_bubbles) = 0
        /\ Done => /\ Len(returned[1]) = 1
                   /\ Len(returned[2]) = 1
                   /\ IsMbc(returned[1][1])

\* calculate_bubbles_with_exclusions returned the fallback circle for a
\* region narrower than 2000 m.
C10_Witness ==
    /\ Done /\ entry = "calculate_bubbles_with_exclusions"
    /\ width < 2000
    /\ tiers = 0
    /\ Len(returned[1]) = 1
    /\ IsMbc(returned[1][1])

C12_NoIterationFromNonPositive ==
    (initial_radius <= 0 /\ pc # "call" /\ entry \in EntryPoints \cup {DirectCall}) =>
        /\ tiers = 0
        /\ pc \in {"loop", "generated"} =>
               inclusion_bubbles = <<>> /\ inclusion_data = <<>>
        /\ (Done /\ entry = DirectCall) => returned = <<<<>>, <<>>>>

\* generate_inclusion_bubbles returned from a call with an initial radius of
\* 0 or less.
C12_Witness ==
    /\ Done /\ entry = DirectCall
    /\ initial_radius <= 0
    /\ returned = <<<<>>, <<>>>>

\* the generator of exclusion bubbles has run
ExclusionsGenerated ==
    /\ entry \in {"calculate_bubbles_with_exclusions", "calculate_bubbles"}
    /\ pc \in {"return", "done"}

\* C17: generate_exclusion_bubbles places one bubble of radius 1000 m
\* (recorded as 1 km) at every multiple of 250 m, from 0, below the exterior
\* length of each part of the region expanded by 1000 m, part after part,
\* with no containment filter and no cap: the number of exclusion bubbles is
\* the sum over the parts of ceil(length / 250), also when that is more than
\* BUBBLE_LIMIT, and the entry points return the list whole.
C17_ExclusionRing ==
    ExclusionsGenerated =>
        /\ Len(exclusion_bubbles) =
               SumSeq([i \in 1..Len(padded_boundary) |-> (padded_boundary[i] + 249) \div 250])
        /\ Len(exclusion_data) = Len(exclusion_bubbles)
        /\ \A n \in 1..Len(exclusion_bubbles) :
            LET bubble == exclusion_bubbles[n]
            IN  /\ bubble.x \in 1..Len(padded_boundary)
                /\ bubble.y % 250 = 0
                /\ 0 <= bubble.y /\ bubble.y < padded_boundary[bubble.x]
                /\ bubble.diameter = 2 * 1000
                /\ exclusion_data[n] = <<bubble.x, bubble.y, 1>>
                /\ n = 1 => bubble.x = 1 /\ bubble.y = 0
                /\ n > 1 =>
                       \/ /\ bubble.x = exclusion_bubbles[n - 1].x
                          /\ bubble.y = exclusion_bubbles[n - 1].y + 250
                       \/ /\ bubble.x = exclusion_bubbles[n - 1].x + 1
                          /\ bubble.y = 0
        /\ Done => returned[3] = exclusion_bubbles /\ returned[4] = exclusion_data

\* An entry point returned more than BUBBLE_LIMIT exclusion bubbles.
C17_Witness ==
    /\ Done /\ ExclusionsGenerated
    /\ Len(returned[3]) > BUBBLE_LIMIT
    /\ Len(returned[4]) > BUBBLE_LIMIT

\* bubble a is placed before bubble b: in a tier of larger radius, or in the
\* same tier on an earlier part, or on the same part at a smaller
\* interpolation distance (an earlier sample)
PlacedBefore(a, b) ==
    \/ a.diameter > b.diameter
    \/ a.diameter = b.diameter /\ a.x < b.x
    \/ a.diameter = b.diameter /\ a.x = b.x /\ a.y < b.y

\* C18: the order of the accepted bubbles is fixed by the inputs and the
\* geometry results: the list the descent builds is in strictly increasing
\* order of (tier, part, sample), tiers by decreasing radius, parts in part
\* order and samples by increasing interpolation distance, so two runs that
\* accept the same bubbles hold the identical sequence; the records are in
\* the same order.
C18_OrderFixedByGeometry ==
    (pc \in {"loop", "generated"} \/ (Done /\ entry = DirectCall)) =>
        /\ \A n \in 2..Len(inclusion_bubbles) :
               PlacedBefore(inclusion_bubbles[n - 1], inclusion_bubbles[n])
        /\ Len(inclusion_data) = Len(inclusion_bubbles)
        /\ \A n \in 1..Len(inclusion_bubbles) :
               /\ inclusion_data[n][1] = inclusion_bubbles[n].x
               /\ inclusion_data[n][2] = inclusion_bubbles[n].y

\* The list holds bubbles of two tiers, of two parts of one tier and of two
\* samples of one part.
C18_Witness ==
    /\ pc \in {"loop", "generated"}
    /\ \E n \in 2..Len(inclusion_bubbles) :
           inclusion_bubbles[n - 1].diameter > inclusion_bubbles[n].diameter
    /\ \E n \in 2..Len(inclusion_bubbles) :
           /\ inclusion_bubbles[n - 1].diameter = inclusion_bubbles[n].diameter
           /\ inclusion_bubbles[n - 1].x < inclusion_bubbles[n].x
    /\ \E n \in 2..Len(inclusion_bubbles) :
           /\ inclusion_bubbles[n - 1].diameter = inclusion_bubbles[n].diameter
           /\ inclusion_bubbles[n - 1].x = inclusion_bubbles[n].x
           /\ inclusion_bubbles[n - 1].y < inclusion_bubbles[n].y

\* C19: the list generate_inclusion_bubbles accumulates never holds more
\* than BUBBLE_LIMIT bubbles, at any point and before any truncation.
C19_AccumulatedWithinLimit ==
    /\ Len(inclusion_bubbles) <= BUBBLE_LIMIT
    /\ Len(inclusion_data) <= BUBBLE_LIMIT

\* the bubbles appended by the step from this state to the next
Appended ==
    [n \in 1..(Len(inclusion_bubbles') - Len(inclusion_bubbles)) |->
        inclusion_bubbles'[Len(inclusion_bubbles) + n]]

\* a lower bound of the number of sample points a tier walked on a part:
\* the samples up to the last one accepted there (sample indices start at 0)
WalkedUpToLastAccepted(bubbles, part) ==
    LET samples == {bubbles[n].y : n \in {m \in 1..Len(bubbles) : bubbles[m].x = part}}
    IN  IF samples = {} THEN 0
        ELSE 1 + CHOOSE k \in samples : \A other \in samples : other <= k

\* C20: in the tier of radius 1000, whose step is always the remainder step
\* total / (BUBBLE_LIMIT - placed), the sample points walked over all the
\* parts number BUBBLE_LIMIT - placed, so no more than that many are walked
\* and the count after the tier is at most BUBBLE_LIMIT.
C20_RemainderTierWithinBudget ==
    [][(pc = "loop" /\ LoopCondition /\ radius = 1000 /\ tiers' = tiers + 1) =>
          /\ SumSeq([part \in 1..MaxParts |->
                        WalkedUpToLastAccepted(Appended, part)])
                 <= BUBBLE_LIMIT - Len(inclusion_bubbles)
          /\ Len(inclusion_bubbles') <= BUBBLE_LIMIT]_vars

\* C22: at the end of every tier, with an empty skeleton or not, the next
\* radius is floor(radius / 1500) * 1000 when at least one bubble has been
\* placed over all the tiers so far, and radius - 1000 when none has.
C22_TierTransition ==
    [][tiers' = tiers + 1 =>
          /\ Len(inclusion_bubbles') > 0 => radius' = (radius \div 1500) * 1000
          /\ Len(inclusion_bubbles') = 0 => radius' = radius - 1000]_vars

\* C25: in a descent started from a positive multiple of 1000, unless the
\* count of bubbles has reached BUBBLE_LIMIT, the tier after which the loop
\* ends is the tier of radius 1000 (the one with the remainder step): no
\* transition goes from a larger radius to 0 or below.
C25_LastTierIs1000 ==
    [][(tiers' = tiers + 1 /\ initial_radius > 0 /\ initial_radius % 1000 = 0
            /\ ~LoopCondition') =>
          \/ radius = 1000 /\ radius' = 0
          \/ Len(inclusion_bubbles') >= BUBBLE_LIMIT]_vars

\* A descent from 4000 placed bubbles there, stepped down to 2000 and to
\* 1000, and ended below BUBBLE_LIMIT.
C25_Witness ==
    /\ initial_radius = 4000
    /\ tiers = 3
    /\ radius = 0
    /\ Len(inclusion_bubbles) < BUBBLE_LIMIT
    /\ Len(inclusion_bubbles) > 0
    /\ inclusion_bubbles[1].diameter = 2 * 4000

\* C26: every call of calculate_step the descent makes has radius > 0 and
\* bubble_length < BUBBLE_LIMIT, so neither divisor (radius,
\* BUBBLE_LIMIT - bubble_length) is zero and the step returned, whatever the
\* skeleton, is not negative.
C26_StepDivisorsNonZero ==
    [][tiers' = tiers + 1 =>
          /\ radius > 0
          /\ Len(inclusion_bubbles) < BUBBLE_LIMIT
          /\ BUBBLE_LIMIT - Len(inclusion_bubbles) # 0
          /\ \A skeleton \in Islands \ {<<>>} :
                 LET s == calculate_step(skeleton, radius, Len(inclusion_bubbles))
                 IN  s.den > 0 /\ s.num >= 0]_vars

\* The tier of radius 1000 ran with bubbles of the tier of radius 2000
\* already placed and filled the list to BUBBLE_LIMIT exactly.
C26_Witness ==
    /\ pc = "loop"
    /\ tiers = 2
    /\ radius = 0
    /\ Len(inclusion_bubbles) = BUBBLE_LIMIT
    /\ inclusion_bubbles[1].diameter = 2 * 2000
    /\ inclusion_bubbles[BUBBLE_LIMIT].diameter = 2 * 1000

\* the record describes the geometry: the same centre, and the radius of the
\* geometry (half the width of its bounds) in whole kilometres for a bubble
\* of the descent or of the exclusion ring, in whole metres for the
\* minimum bounding circle
Describes(record, geometry) ==
    /\ record[1] = geometry.x
    /\ record[2] = geometry.y
    /\ IF IsMbc(geometry)
       THEN record[3] = geometry.diameter \div 2
       ELSE /\ record[3] * 2 * 1000 <= geometry.diameter
            /\ geometry.diameter < (record[3] + 1) * 2 * 1000

\* two lists of the same length whose entries correspond
Paired(geometries, data) ==
    /\ Len(geometries) = Len(data)
    /\ \A n \in 1..Len(geometries) : Describes(data[n], geometries[n])

\* C27: at every point of generate_inclusion_bubbles, after the fallback
\* and in the lists the entry points return after truncation, the inclusion
\* geometry list and the inclusion data list have the same length and
\* entry i of the one describes entry i of the other; the same holds for
\* the exclusion lists.
C27_ListsPaired ==
    /\ Paired(inclusion_bubbles, inclusion_data)
    /\ Paired(exclusion_bubbles, exclusion_data)
    /\ (Done /\ entry = DirectCall) => Paired(returned[1], returned[2])
    /\ (Done /\ entry \in EntryPoints) =>
           /\ Paired(returned[1], returned[2])
           /\ Paired(returned[3], returned[4])

\* calculate_bubbles_with_exclusions returned truncated inclusion lists and
\* the lists of the exclusion ring.
C27_Witness ==
    /\ Done /\ entry = "calculate_bubbles_with_exclusions"
    /\ Len(inclusion_bubbles) > BUBBLE_LIMIT
    /\ Len(returned[1]) = BUBBLE_LIMIT
    /\ Len(returned[2]) = BUBBLE_LIMIT
    /\ Len(returned[3]) > 0
    /\ Len(returned[4]) = Len(returned[3])

\* A tier at radius 1500 placed bubbles and the radius went to 1000, where
\* the decrement by 1000 would give 500.
C22_Witness ==
    /\ initial_radius = 1500
    /\ tiers = 1
    /\ Len(inclusion_bubbles) > 0
    /\ radius = 1000

\* the descent of an entry point is running or has just ended (the fallback
\* has not run yet)
InDescent == entry \in EntryPoints /\ pc \in {"loop", "generated"}

\* C23: when the descent starts from the estimate of
\* calculate_radius_upper_bound, the radius of every tier that runs is a
\* positive whole multiple of 1000, and every radius the descent records is
\* a whole number of kilometres, at least 1, the radius of its bubble.
C23_RadiiAreWholeKm ==
    InDescent =>
        /\ radius % 1000 = 0
        /\ (pc = "loop" /\ LoopCondition) => radius >= 1000
        /\ \A n \in 1..Len(inclusion_data) :
               /\ inclusion_data[n][3] >= 1
               /\ inclusion_data[n][3] * 2 * 1000 = inclusion_bubbles[n].diameter

\* The descent of an entry point recorded bubbles of 2 km and of 1 km.
C23_Witness ==
    /\ InDescent
    /\ \E n \in 1..Len(inclusion_data) : inclusion_data[n][3] = 2
    /\ \E n \in 1..Len(inclusion_data) : inclusion_data[n][3] = 1

\* C24: the radius of the records of the inclusion data list never
\* increases along the list, so the truncation of the entry points keeps the
\* first BUBBLE_LIMIT entries in placement order and drops only entries of
\* the smallest radius in the list, that of the last tier that ran.
C24_TruncationDropsSmallest ==
    /\ \A n \in 2..Len(inclusion_data) : inclusion_data[n - 1][3] >= inclusion_data[n][3]
    /\ (Done /\ entry \in EntryPoints) =>
           /\ Len(returned[1]) <= Len(inclusion_bubbles)
           /\ returned[1] = SubSeq(inclusion_bubbles, 1, Len(returned[1]))
           /\ returned[2] = SubSeq(inclusion_data, 1, Len(returned[2]))
           /\ Len(returned[2]) = Len(returned[1])
           /\ Len(inclusion_data) > BUBBLE_LIMIT => Len(returned[2]) = BUBBLE_LIMIT
           /\ \A n \in (Len(returned[2]) + 1)..Len(inclusion_data) :
                  \A m \in 1..Len(inclusion_data) :
                      inclusion_data[n][3] <= inclusion_data[m][3]

\* An entry point dropped the last entry of a list of bubbles of two tiers.
C24_Witness ==
    /\ Done /\ entry \in EntryPoints
    /\ Len(inclusion_data) > BUBBLE_LIMIT
    /\ Len(returned[2]) = BUBBLE_LIMIT
    /\ inclusion_data[1][3] = 2
    /\ inclusion_data[Len(inclusion_data)][3] = 1

----
\* Properties of compute_coverage_stats (checked under SpecCoverage).

Computed == entry = "compute_coverage_stats" /\ pc = "done"

\* p <= q for fractions with positive denominators
FracLeq(p, q) == p.num * q.den <= q.num * p.den

Hundred == [num |-> 100, den |-> 1]

Zero == [num |-> 0, den |-> 1]

FracEq(p, q) == p.num * q.den = q.num * p.den

\* C5: internal_inclusion <= 100, exclusion <= 100, net <= internal_inclusion
\* and the four percentages are >= 0.
C5_PercentageBounds ==
    Computed =>
        /\ FracLeq(coverage_stats.internal_inclusion, Hundred)
        /\ FracLeq(coverage_stats.exclusion, Hundred)
        /\ FracLeq(coverage_stats.net, coverage_stats.internal_inclusion)
        /\ FracLeq(Zero, coverage_stats.internal_inclusion)
        /\ FracLeq(Zero, coverage_stats.external_inclusion)
        /\ FracLeq(Zero, coverage_stats.exclusion)
        /\ FracLeq(Zero, coverage_stats.net)

\* The inclusion union is larger than the region and covers it all, and an
\* exclusion bubble overlaps it: internal_inclusion is exactly 100,
\* external_inclusion is above 0 and net is below internal_inclusion.
C5_Witness ==
    /\ Computed
    /\ Area(union_all(inclusion_geoms)) > Area(boundary)
    /\ FracEq(coverage_stats.internal_inclusion, Hundred)
    /\ ~FracLeq(coverage_stats.external_inclusion, Zero)
    /\ ~FracLeq(coverage_stats.internal_inclusion, coverage_stats.net)

\* Reference: the cells, counted one by one.
InSomeInclusion(c) == \E i \in 1..Len(inclusion_geoms) : c \in inclusion_geoms[i]

InSomeExclusion(c) == \E i \in 1..Len(exclusion_geoms) : c \in exclusion_geoms[i]

Count(P(_)) == Cardinality({c \in Cells : P(c)})

RefInternal(c) == InSomeInclusion(c) /\ c \in boundary

RefExternal(c) == InSomeInclusion(c) /\ c \notin boundary /\ ~InSomeExclusion(c)

RefExclusion(c) == InSomeExclusion(c) /\ c \in boundary

RefNet(c) == InSomeInclusion(c) /\ c \in boundary /\ ~InSomeExclusion(c)

RegionCells(c) == c \in boundary

\* C6: the four results are 100 times the area of, respectively,
\* inclusion_union /\ region, (inclusion_union - region) - exclusion_union,
\* exclusion_union /\ region and (inclusion_union /\ region) - exclusion_union,
\* over the area of the region.
C6_FourRatios ==
    Computed =>
        /\ coverage_stats.internal_inclusion =
               [num |-> 100 * Count(RefInternal), den |-> Count(RegionCells)]
        /\ coverage_stats.external_inclusion =
               [num |-> 100 * Count(RefExternal), den |-> Count(RegionCells)]
        /\ coverage_stats.exclusion =
               [num |-> 100 * Count(RefExclusion), den |-> Count(RegionCells)]
        /\ coverage_stats.net =
               [num |-> 100 * Count(RefNet), den |-> Count(RegionCells)]
        /\ DOMAIN coverage_stats =
               {"internal_inclusion", "external_inclusion", "exclusion", "net"}

\* A call where an inclusion bubble lies partly outside the region and the
\* exclusion bubble covers part of the inclusion union outside the region
\* and part of the region.
C6_Witness ==
    /\ Computed
    /\ Count(RefInternal) > 0
    /\ Count(RefExternal) > 0
    /\ Count(RefExclusion) > 0
    /\ \E c \in Cells : InSomeInclusion(c) /\ c \notin boundary /\ InSomeExclusion(c)

\* C7: a duplicate of a bubble of a list, or a bubble covered by the bubbles
\* of a list, added to that list leaves the four results unchanged; for one
\* circle inside the region internal_inclusion is 100 * circle_area /
\* region_area.
C7_UnionNotSum ==
    Computed =>
        /\ \A c \in Circles :
            /\ (\E i \in 1..Len(inclusion_geoms) : inclusion_geoms[i] = c) =>
                   compute_coverage_stats(boundary, Append(inclusion_geoms, c),
                                          exclusion_geoms) = coverage_stats
            /\ (inclusion_geoms # <<>> /\ c \subseteq union_all(inclusion_geoms)) =>
                   compute_coverage_stats(boundary, <<c>> \o inclusion_geoms,
                                          exclusion_geoms) = coverage_stats
            /\ (\E i \in 1..Len(exclusion_geoms) : exclusion_geoms[i] = c) =>
                   compute_coverage_stats(boundary, inclusion_geoms,
                                          Append(exclusion_geoms, c)) = coverage_stats
            /\ (exclusion_geoms # <<>> /\ c \subseteq union_all(exclusion_geoms)) =>
                   compute_coverage_stats(boundary, inclusion_geoms,
                                          <<c>> \o exclusion_geoms) = coverage_stats
        /\ (Len(inclusion_geoms) = 1 /\ inclusion_geoms[1] \subseteq boundary) =>
               coverage_stats.internal_inclusion =
                   [num |-> 100 * Area(inclusion_geoms[1]), den |-> Area(boundary)]

\* The statistics of an inclusion list that holds the same bubble twice,
\* inside a larger region.
C7_Witness ==
    /\ Computed
    /\ Len(inclusion_geoms) = 2
    /\ inclusion_geoms[1] = inclusion_geoms[2]
    /\ inclusion_geoms[1] \subseteq boundary
    /\ inclusion_geoms[1] # boundary
    /\ coverage_stats.internal_inclusion =
           [num |-> 100 * Area(inclusion_geoms[1]), den |-> Area(boundary)]

\* C8: with an empty inclusion list internal_inclusion, external_inclusion
\* and net are 0; with an empty exclusion list exclusion is 0 and net equals
\* internal_inclusion.
C8_EmptyLists ==
    Computed =>
        /\ inclusion_geoms = <<>> =>
            /\ FracEq(coverage_stats.internal_inclusion, Zero)
            /\ FracEq(coverage_stats.external_inclusion, Zero)
            /\ FracEq(coverage_stats.net, Zero)
        /\ exclusion_geoms = <<>> =>
            /\ FracEq(coverage_stats.exclusion, Zero)
            /\ coverage_stats.net = coverage_stats.internal_inclusion

\* The statistics of a region computed from two empty lists.
C8_Witness ==
    /\ Computed
    /\ inclusion_geoms = <<>>
    /\ exclusion_geoms = <<>>
    /\ coverage_stats.internal_inclusion = [num |-> 0, den |-> Area(boundary)]
    /\ coverage_stats.net = coverage_stats.internal_inclusion

\* p - q for fractions with positive denominators
FracSub(p, q) == [num |-> p.num * q.den - q.num * p.den, den |-> p.den * q.den]

\* C28: internal_inclusion - net <= exclusion, that is
\* net >= internal_inclusion - exclusion: what net loses of the in-region
\* inclusion coverage is in-region exclusion area (the cells of the region
\* that lie in an inclusion bubble and in an exclusion bubble).
C28_NetLosesOnlyExclusion ==
    Computed =>
        LET lost == FracSub(coverage_stats.internal_inclusion, coverage_stats.net)
        IN  /\ FracLeq(lost, coverage_stats.exclusion)
            /\ FracEq(lost,
                      [num |-> 100 * Cardinality({c \in boundary :
                                   InSomeInclusion(c) /\ InSomeExclusion(c)}),
                       den |-> Cardinality(boundary)])

\* Part of the in-region inclusion coverage is excluded, and the exclusion
\* bubbles cover more of the region than that part.
C28_Witness ==
    /\ Computed
    /\ ~FracLeq(coverage_stats.internal_inclusion, coverage_stats.net)
    /\ ~FracLeq(coverage_stats.exclusion,
                FracSub(coverage_stats.internal_inclusion, coverage_stats.net))
    /\ ~FracLeq(coverage_stats.net, Zero)

----
\* Properties of the batch of main (checked under SpecMain).

Exited == pc = "exit"

\* statistics.csv holds a region row for the boundary name
HasStatisticsRow(boundary_name) ==
    \E i \in 2..Len(statistics_rows) :
        /\ Len(statistics_rows[i]) = 5
        /\ statistics_rows[i][1] = boundary_name

\* the summary rows follow a blank row in statistics.csv
SummaryWritten ==
    \E i \in 1..Len(statistics_rows) :
        /\ statistics_rows[i] = BlankRow
        /\ Len(statistics_rows) = i + 5 * Len(StatTypes)

\* C13: when a geometry operation fails while one region is processed, the
\* batch skips that region and goes on: at the end every other region has
\* its statistics row and the summary statistics are written (stated for
\* batches of two regions or more, where another region exists).
C13_BatchSkipsFailedRegion ==
    (entry = "main" /\ Exited /\ Len(boundaries) >= 2) =>
        /\ \A i \in 1..Len(boundaries) :
               (raised = NoException \/ i # region) => HasStatisticsRow(boundaries[i])
        /\ SummaryWritten

\* the rows of bubbles.csv written for the boundary name
BubbleRowsOf(boundary_name) ==
    {i \in 2..Len(output_rows) : output_rows[i][2] = boundary_name}

\* statistics.csv ends with the blank row and the summary rows after n
\* region rows
SummaryAfter(n) ==
    /\ Len(statistics_rows) = 1 + n + 1 + 5 * Len(StatTypes)
    /\ statistics_rows[n + 2] = BlankRow

\* C29: in a batch run each region is processed to the end (bubbles
\* generated and written, coverage computed, statistics row written) before
\* the next one starts; the rows of statistics.csv after the header are one
\* row per processed region, in input order; and the summary is written
\* only after the row of the last region, from the results of this run.
C29_BatchInOrder ==
    (entry = "main" /\ statistics_file # "unopened") =>
        LET n == Len(statistics)
        IN
        /\ n <= region /\ region <= Len(boundaries)
        /\ pc = "comprehension" => n = region
        /\ pc = "coverage" => n = region - 1
        \* one row per processed region, in input order
        /\ statistics_rows[1] = StatisticsHeader
        /\ Len(statistics_rows) >= 1 + n
        /\ \A i \in 1..n :
               statistics_rows[1 + i] = StatisticsRow(boundaries[i], statistics[i])
        /\ Len(statistics_rows) = 1 + n \/ SummaryAfter(n)
        \* a region's bubbles are written before its statistics row, in
        \* one block per region, and no later region has started
        /\ \A i \in 1..Len(boundaries) :
               /\ i <= n => BubbleRowsOf(boundaries[i]) # {}
               /\ i > region => BubbleRowsOf(boundaries[i]) = {}
        /\ \A i, j \in 2..Len(output_rows) :
               (i < j /\ output_rows[i][2] # output_rows[j][2]) =>
                   \E a, b \in 1..region :
                       /\ a < b
                       /\ boundaries[a] = output_rows[i][2]
                       /\ boundaries[b] = output_rows[j][2]
        \* the summary comes after the row of the last region
        /\ SummaryAfter(n) =>
               /\ n = Len(boundaries)
               /\ pc \in {"finally", "exit"}
               /\ \A t \in 1..Len(StatTypes) :
                      LET mean == statistics_rows[n + 2 + 5 * (t - 1) + 1][2]
                      IN  /\ mean.den > 0
                          /\ mean.num * n =
                                 mean.den * SumSeq([i \in 1..n |-> statistics_rows[1 + i][1 + t]])
        /\ (Exited /\ raised = NoException) => SummaryAfter(Len(boundaries))

\* A batch of MaxRegions regions, not in the order of their names, ended
\* with the summary written.
C29_Witness ==
    /\ entry = "main" /\ Exited
    /\ Len(boundaries) = MaxRegions
    /\ boundaries[1] > boundaries[2]
    /\ raised = NoException
    /\ SummaryAfter(MaxRegions)

\* C30: once setup_output_files has opened bubbles.csv and statistics.csv,
\* main leaves with both files closed, whether the summary was written or
\* a region raised; the files are open exactly while the try block runs,
\* and main leaves with unopened files only when no boundary was selected.
C30_FilesClosedOnExit ==
    entry = "main" =>
        /\ (Exited /\ boundaries # <<>>) =>
               output_file = "closed" /\ statistics_file = "closed"
        /\ (Exited /\ raised # NoException) =>
               output_file = "closed" /\ statistics_file = "closed"
        /\ (Exited /\ boundaries = <<>>) =>
               output_file = "unopened" /\ statistics_file = "unopened"
        /\ pc \in {"comprehension", "coverage", "summary", "finally"} =>
               output_file = "open" /\ statistics_file = "open"
        /\ pc = "filtered" =>
               output_file = "unopened" /\ statistics_file = "unopened"

\* main was left by an exception raised while the second region was
\* processed, and both files are closed.
C30_Witness ==
    /\ entry = "main" /\ Exited
    /\ raised = GeometryError
    /\ region = 2
    /\ Len(statistics_rows) >= 2
    /\ output_file = "closed" /\ statistics_file = "closed"

----
\* Properties of write_summary_statistics (checked under SpecSummary).

Summarised == entry = "write_summary_statistics" /\ Exited

\* C14: given an empty list of per-region results, write_summary_statistics
\* raises nothing (it divides by no zero) and writes no summary value.
C14_EmptyListRaisesNothing ==
    (Summarised /\ statistics = <<>>) =>
        /\ raised = NoException
        /\ \A i \in 1..Len(statistics_rows) : statistics_rows[i] = BlankRow

Frac(v) == [num |-> v, den |-> 1]

\* the k-th of the five summary rows of the t-th stat type
SummaryRow(t, k) == statistics_rows[Len(statistics_rows) - 5 * (Len(StatTypes) - t + 1) + k]

\* the values of the t-th stat type over the summarised list
Values(t) == [i \in 1..Len(statistics) |-> statistics[i][StatTypes[t]]]

Indices == 1..Len(statistics)

\* a is the k-th smallest of the values
IsKthSmallest(values, a, k) ==
    /\ Cardinality({i \in 1..Len(values) : values[i] < a}) < k
    /\ Cardinality({i \in 1..Len(values) : values[i] <= a}) >= k

\* C15: for a non-empty list and each of the four metrics, the five rows
\* written are the mean (sum / count), the median (the middle value in
\* increasing order, or the mean of the two middle values), the
\* minimum, the maximum and the population standard deviation (its square
\* is the mean of the squares minus the square of the mean), with
\* min <= median <= max and min <= mean <= max.  For the values 10, 20, 30:
\* mean 20, median 20, min 10, max 30 and standard deviation 8.165 to
\* three decimals (between 8.164 and 8.166).
C15_SummaryOfNonEmpty ==
    (Summarised /\ statistics # <<>>) =>
        /\ raised = NoException
        /\ Len(statistics_rows) = 1 + 5 * Len(StatTypes)
        /\ \A t \in 1..Len(StatTypes) :
            LET v == Values(t)
                n == Len(statistics)
                total == SumSeq(v)
                squares == SumSeq([i \in Indices |-> v[i] * v[i]])
                mean == SummaryRow(t, 1)[2]
                median == SummaryRow(t, 2)[2]
                min == SummaryRow(t, 3)[2]
                max == SummaryRow(t, 4)[2]
                variance == SummaryRow(t, 5)[2].sqrt_of
            IN  /\ SummaryRow(t, 1)[1] = <<StatTypes[t], "mean">>
                /\ SummaryRow(t, 2)[1] = <<StatTypes[t], "median">>
                /\ SummaryRow(t, 3)[1] = <<StatTypes[t], "min">>
                /\ SummaryRow(t, 4)[1] = <<StatTypes[t], "max">>
                /\ SummaryRow(t, 5)[1] = <<StatTypes[t], "sigma">>
                /\ mean.den > 0
                /\ mean.num * n = total * mean.den
                /\ median.den > 0
                /\ \E i, j \in Indices :
                       /\ IsKthSmallest(v, v[i], (n + 1) \div 2)
                       /\ IsKthSmallest(v, v[j], n \div 2 + 1)
                       /\ FracEq(median, [num |-> v[i] + v[j], den |-> 2])
                /\ (\E i \in Indices : v[i] = min) /\ (\A i \in Indices : min <= v[i])
                /\ (\E i \in Indices : v[i] = max) /\ (\A i \in Indices : v[i] <= max)
                /\ variance.den > 0
                /\ variance.num * n * n = variance.den * (n * squares - total * total)
                /\ FracLeq(Frac(min), median) /\ FracLeq(median, Frac(max))
                /\ FracLeq(Frac(min), mean) /\ FracLeq(mean, Frac(max))
                /\ (n = 3 /\ {v[i] : i \in Indices} = {10, 20, 30}) =>
                       /\ FracEq(mean, Frac(20))
                       /\ FracEq(median, Frac(20))
                       /\ min = 10 /\ max = 30
                       /\ 8164 * 8164 * variance.den <= 1000 * 1000 * variance.num
                       /\ 1000 * 1000 * variance.num <= 8166 * 8166 * variance.den

\* The summary of three regions whose internal_inclusion values are 30, 10
\* and 20, in that order, was written.
C15_Witness ==
    /\ Summarised
    /\ Len(statistics) = 3
    /\ Values(1) = <<30, 10, 20>>
    /\ Len(statistics_rows) = 1 + 5 * Len(StatTypes)
    /\ raised = NoException

\* C16: for the result of exactly one region, write_summary_statistics
\* raises nothing and reports, for each metric, mean = median = min = max =
\* the region's value and a standard deviation of 0.
C16_SingleRegion ==
    (Summarised /\ Len(statistics) = 1) =>
        /\ raised = NoException
        /\ \A t \in 1..Len(StatTypes) :
            LET value == statistics[1][StatTypes[t]]
                variance == SummaryRow(t, 5)[2].sqrt_of
            IN  /\ FracEq(SummaryRow(t, 1)[2], Frac(value))
                /\ SummaryRow(t, 1)[2].den > 0
                /\ FracEq(SummaryRow(t, 2)[2], Frac(value))
                /\ SummaryRow(t, 2)[2].den > 0
                /\ SummaryRow(t, 3)[2] = value
                /\ SummaryRow(t, 4)[2] = value
                /\ variance.num = 0 /\ variance.den > 0

\* The summary of a single region with a positive net coverage was written.
C16_Witness ==
    /\ Summarised
    /\ Len(statistics) = 1
    /\ statistics[1]["net"] > 0
    /\ SummaryRow(4, 4) = << <<"net", "max">>, statistics[1]["net"] >>

----
\* Properties of calculate_step (checked under SpecStep).

StepReturned == entry = "calculate_step" /\ pc = "done"

\* C21: calculate_step returns the radius as the step, except when the
\* radius is 1000 or placed + total / radius is more than BUBBLE_LIMIT, where
\* it returns total / (BUBBLE_LIMIT - placed); total is the sum of the
\* exterior lengths of all the parts.
C21_StepDefinition ==
    StepReturned =>
        LET total == SumSeq(arg_polygons)
            \* placed + total / radius > BUBBLE_LIMIT, for a positive radius
            over_budget == total > (BUBBLE_LIMIT - arg_bubble_length) * radius
        IN  /\ step_returned.den > 0
            /\ IF radius = 1000 \/ over_budget
               THEN step_returned.num * (BUBBLE_LIMIT - arg_bubble_length) = total * step_returned.den
               ELSE step_returned.num = radius * step_returned.den

\* calculate_step returned the remainder step for a radius other than 1000,
\* with parts of different lengths.
C21_Witness ==
    /\ StepReturned
    /\ radius = 2000
    /\ arg_bubble_length = 199
    /\ arg_polygons = <<1000, 2000>>
    /\ step_returned = [num |-> 3000, den |-> 1]

====
